---- MODULE Spec2Model ----
(***************************************************************************)
(* Bridge / umbrella crossing puzzle: the two solvers of                   *)
(* assignment1/BridgeCrossingSolution.py (priority-queue search and        *)
(* depth-first branch and bound) and the solution printer.                 *)
(*                                                                         *)
(* People are numbered 1..n; crossing_times is the dict person -> minutes, *)
(* modelled as a function on 1..n.  A configuration is the tuple           *)
(* (start_side, end_side, umbrella_pos).  One action is one iteration of a *)
(* solver's while loop (one branch of it), a call, a return or a print.    *)
(* Python's None is the empty tuple and a present value x is <<x>>.        *)
(***************************************************************************)
EXTENDS Integers, Sequences, FiniteSets

VARIABLES crossing_times, time_limit, solver, pc, pq, visited_times, stack,
          visited_states, min_total_time, best_path, ret, output, popped,
          last_pop, runs

vars == <<crossing_times, time_limit, solver, pc, pq, visited_times, stack,
          visited_states, min_total_time, best_path, ret, output, popped,
          last_pop, runs>>

(* popped and last_pop are history variables (the entries the running     *)
(* solver has popped so far and the time of the latest one); runs lists    *)
(* the results of the calls that have returned.                            *)

(* ---- bounds of the model ---- *)
MaxPeople == 2
MaxDur == 3
MaxLimit == 7

(* the main block makes two solver calls on the same input *)
Calls == 2

(* ---- Python values ---- *)
None == <<>>
Some(x) == <<x>>
(* float('inf'): above every time a search can reach *)
Infinity == 1000000

Max(S) == CHOOSE x \in S : \A y \in S : y <= x
Min(S) == CHOOSE x \in S : \A y \in S : x <= y

(* ---- inputs ---- *)
(* the main block's dict: Amogh, Ameya, Grandmother, Grandfather as 1..4 *)
CROSSING_TIMES == <<5, 10, 20, 25>>
TIME_LIMIT == 60

(* The numbering of the people carries no meaning (the order in which a   *)
(* set is iterated is chosen separately, see IterOrders), so the people    *)
(* are numbered by non-decreasing duration.                                *)
Dicts ==
  { f \in UNION { [1..n -> 1..MaxDur] : n \in 0..MaxPeople } :
      \A i, j \in DOMAIN f : i < j => f[i] <= f[j] }

GenericInputs ==
  { [crossing_times |-> f, time_limit |-> l] : f \in Dicts, l \in (-1)..MaxLimit }

(* the main block's four people, at its limit, one minute either side of  *)
(* it, and at a limit far too small                                        *)
ScenarioInputs ==
  { [crossing_times |-> CROSSING_TIMES, time_limit |-> l] :
      l \in {15, TIME_LIMIT - 1, TIME_LIMIT, TIME_LIMIT + 1} }

(* three people, two of them equally slow, so that queue entries of equal  *)
(* time and children of equal cost arise; the best total is 5              *)
TieInputs ==
  { [crossing_times |-> <<1, 2, 2>>, time_limit |-> l] : l \in {4, 5, 6} }

Inputs == GenericInputs \cup ScenarioInputs \cup TieInputs

(* ---- configurations and moves ---- *)
(* The two solvers hold the same code for choosing the side to move from,  *)
(* enumerating the groups, costing a trip, applying a move and deciding    *)
(* whether to queue the result; the operators below model both copies.     *)
all_people == DOMAIN crossing_times

initial_state == [start_side |-> all_people, end_side |-> {}, umbrella_pos |-> "start"]

(* faulty variant: a goal also needs somebody on the end side *)
IsGoal_nonempty(config) == config.start_side = {} /\ config.end_side # {}

IsGoal(config) == config.start_side = {}

move_from(config) ==
  IF config.umbrella_pos = "start" THEN config.start_side ELSE config.end_side

move_to_pos(config) ==
  IF config.umbrella_pos = "start" THEN "end" ELSE "start"

(* iteration orders of a frozenset: every sequence listing it once *)
IterOrders(S) ==
  { o \in [1..Cardinality(S) -> S] : \A i, j \in 1..Cardinality(S) : o[i] = o[j] => i = j }

RECURSIVE PairsFrom(_, _, _)
PairsFrom(order, i, j) ==
  IF i >= Len(order) THEN <<>>
  ELSE IF j > Len(order) THEN PairsFrom(order, i + 1, i + 2)
  ELSE <<{order[i], order[j]}>> \o PairsFrom(order, i, j + 1)

(* itertools.combinations(order, num_people), each made a frozenset *)
combinations(order, num_people) ==
  IF Len(order) < num_people THEN <<>>
  ELSE IF num_people = 1 THEN [i \in 1..Len(order) |-> {order[i]}]
  ELSE PairsFrom(order, 1, 2)

(* the groups in the order the two nested for loops visit them *)
Groups(order) == combinations(order, 1) \o combinations(order, 2)

(* faulty variant: the fastest member sets the pace *)
trip_time_min(group) == Min({ crossing_times[person] : person \in group })

trip_time(group) == Max({ crossing_times[person] : person \in group })

(* faulty variant: the limit is exclusive *)
OverLimit_exclusive(new_total_time) == new_total_time >= time_limit

OverLimit(new_total_time) == new_total_time > time_limit

(* faulty variant: the umbrella stays where it was *)
new_config_noflip(config, group) ==
  IF config.umbrella_pos = "start"
  THEN [start_side |-> config.start_side \ group,
        end_side |-> config.end_side \cup group,
        umbrella_pos |-> config.umbrella_pos]
  ELSE [start_side |-> config.start_side \cup group,
        end_side |-> config.end_side \ group,
        umbrella_pos |-> config.umbrella_pos]

new_config(config, group) ==
  IF config.umbrella_pos = "start"
  THEN [start_side |-> config.start_side \ group,
        end_side |-> config.end_side \cup group,
        umbrella_pos |-> move_to_pos(config)]
  ELSE [start_side |-> config.start_side \cup group,
        end_side |-> config.end_side \ group,
        umbrella_pos |-> move_to_pos(config)]

(* faulty variant: a configuration is queued the first time it is seen only *)
ShouldPush_unvisited(visited, config, new_total_time) ==
  config \notin DOMAIN visited

(* new_config not in visited or new_total_time < visited[new_config] *)
ShouldPush(visited, config, new_total_time) ==
  config \notin DOMAIN visited \/ new_total_time < visited[config]

(* faulty variant: visited.setdefault(new_config, new_total_time) *)
Record_setdefault(visited, config, new_total_time) ==
  [c \in DOMAIN visited \cup {config} |->
     IF c \in DOMAIN visited THEN visited[c] ELSE new_total_time]

(* visited[new_config] = new_total_time *)
Record(visited, config, new_total_time) ==
  [c \in DOMAIN visited \cup {config} |->
     IF c = config THEN new_total_time ELSE visited[c]]

(* visited.get(current_config, float('inf')) *)
Get(visited, config) ==
  IF config \in DOMAIN visited THEN visited[config] ELSE Infinity

Last(path) == path[Len(path)]

(* ---- priority-queue solver ---- *)
(* faulty variant: an entry of the largest current_time, as from a max-heap *)
heappop_max(queue) ==
  { e \in queue : \A o \in queue : e.current_time >= o.current_time }

(* heapq.heappop: an entry of the smallest current_time; the comparison of *)
(* the paths of equal-time entries is left open                            *)
heappop(queue) ==
  { e \in queue : \A o \in queue : e.current_time <= o.current_time }

RECURSIVE bfs_explore(_, _, _, _)
bfs_explore(groups, cur, visited, queue) ==
  IF groups = <<>> THEN [visited |-> visited, pq |-> queue]
  ELSE LET group == Head(groups)
           new_total_time == cur.current_time + trip_time(group)
           nc == new_config(Last(cur.path), group)
       IN IF OverLimit(new_total_time)
          THEN bfs_explore(Tail(groups), cur, visited, queue)
          ELSE IF ShouldPush(visited, nc, new_total_time)
          THEN bfs_explore(Tail(groups), cur, Record(visited, nc, new_total_time),
                 queue \cup {[current_time |-> new_total_time,
                              path |-> Append(cur.path, nc)]})
          ELSE bfs_explore(Tail(groups), cur, visited, queue)

(* ---- depth-first solver ---- *)
(* faulty variant: the map is updated before the limit is tested *)
RECURSIVE dfs_explore_record_first(_, _, _, _)
dfs_explore_record_first(groups, cur, visited, moves) ==
  IF groups = <<>> THEN [visited |-> visited, possible_moves |-> moves]
  ELSE LET group == Head(groups)
           new_total_time == cur.current_time + trip_time(group)
           nc == new_config(cur.current_config, group)
       IN IF ShouldPush(visited, nc, new_total_time)
          THEN dfs_explore_record_first(Tail(groups), cur,
                 Record(visited, nc, new_total_time),
                 IF OverLimit(new_total_time) THEN moves
                 ELSE Append(moves, [current_time |-> new_total_time,
                                     path |-> Append(cur.path, nc),
                                     current_config |-> nc]))
          ELSE dfs_explore_record_first(Tail(groups), cur, visited, moves)

RECURSIVE dfs_explore(_, _, _, _)
dfs_explore(groups, cur, visited, moves) ==
  IF groups = <<>> THEN [visited |-> visited, possible_moves |-> moves]
  ELSE LET group == Head(groups)
           new_total_time == cur.current_time + trip_time(group)
           nc == new_config(cur.current_config, group)
       IN IF OverLimit(new_total_time)
          THEN dfs_explore(Tail(groups), cur, visited, moves)
          ELSE IF ShouldPush(visited, nc, new_total_time)
          THEN dfs_explore(Tail(groups), cur, Record(visited, nc, new_total_time),
                 Append(moves, [current_time |-> new_total_time,
                                path |-> Append(cur.path, nc),
                                current_config |-> nc]))
          ELSE dfs_explore(Tail(groups), cur, visited, moves)

(* sorted(possible_moves, key=lambda x: x[0], reverse=True): stable *)
RECURSIVE sorted_reverse(_)
sorted_reverse(moves) ==
  IF moves = <<>> THEN <<>>
  ELSE LET m == Max({ moves[i].current_time : i \in 1..Len(moves) })
           IsMax(x) == x.current_time = m
           NotMax(x) == x.current_time # m
       IN SelectSeq(moves, IsMax) \o sorted_reverse(SelectSeq(moves, NotMax))

(* faulty variant: the top entry is read and left on the stack *)
Pop_peek(s) == s

(* stack.pop() *)
Top(s) == s[Len(s)]
Pop(s) == SubSeq(s, 1, Len(s) - 1)

(* current_time < min_total_time and current_time <= time_limit *)
Improves(current_time, best) == current_time < best /\ current_time <= time_limit

(* current_time >= min_total_time or current_time > time_limit *)
Bounded(current_time, best) == current_time >= best \/ current_time > time_limit

(* faulty variant: an entry no cheaper than the recorded time is stale *)
Stale_or_equal(e, visited) == e.current_time >= Get(visited, e.current_config)

(* current_time > visited_states.get(current_config, float('inf')) *)
Stale(e, visited) == e.current_time > Get(visited, e.current_config)

(* the two pruning tests of the loop, either of which abandons the entry *)
Abandoned(e, best, visited) == Bounded(e.current_time, best) \/ Stale(e, visited)

(* ---- printer ---- *)
Truthy(opt_path) == opt_path # None /\ opt_path[1] # <<>>

moved_people(start_config, end_config) ==
  IF start_config.umbrella_pos = "start"
  THEN start_config.start_side \ end_config.start_side
  ELSE end_config.start_side \ start_config.start_side

direction(start_config) ==
  IF start_config.umbrella_pos = "start" THEN "-->" ELSE "<--"

Steps(path, visited_times_map) ==
  [i \in 1..(Len(path) - 1) |->
     [moved_people |-> moved_people(path[i], path[i + 1]),
      direction |-> direction(path[i]),
      trip_time |-> visited_times_map[path[i + 1]] - visited_times_map[path[i]],
      time_at_step |-> visited_times_map[path[i + 1]],
      start_side |-> path[i + 1].start_side,
      end_side |-> path[i + 1].end_side]]

print_bridge_solution(total_time, path, visited_times_map) ==
  IF Truthy(path)
  THEN [found |-> TRUE, total_time |-> total_time, steps |-> Steps(path[1], visited_times_map)]
  ELSE [found |-> FALSE, total_time |-> None, steps |-> <<>>]

(* ---- state machine ---- *)
NoOutput == [found |-> FALSE, total_time |-> None, steps |-> <<>>]
NoRet == [best_time |-> None, path |-> None, map |-> <<>>]

Init ==
  /\ \E in \in Inputs :
       /\ crossing_times = in.crossing_times
       /\ time_limit = in.time_limit
  /\ solver = "none"
  /\ pc = "idle"
  /\ pq = {}
  /\ visited_times = <<>>
  /\ stack = <<>>
  /\ visited_states = <<>>
  /\ min_total_time = Infinity
  /\ best_path = None
  /\ ret = NoRet
  /\ output = NoOutput
  /\ popped = {}
  /\ last_pop = 0
  /\ runs = <<>>

CanCall == pc \in {"idle", "printed"} /\ Len(runs) < Calls

CallBfs ==
  /\ CanCall
  /\ solver' = "bfs"
  /\ pc' = "loop"
  /\ pq' = {[current_time |-> 0, path |-> <<initial_state>>]}
  /\ visited_times' = Record(<<>>, initial_state, 0)
  /\ stack' = <<>>
  /\ visited_states' = <<>>
  /\ min_total_time' = Infinity
  /\ best_path' = None
  /\ ret' = NoRet
  /\ output' = NoOutput
  /\ popped' = {}
  /\ last_pop' = 0
  /\ UNCHANGED <<crossing_times, time_limit, runs>>

CallDfs ==
  /\ CanCall
  /\ solver' = "dfs"
  /\ pc' = "loop"
  /\ stack' = <<[current_time |-> 0, path |-> <<initial_state>>,
                 current_config |-> initial_state]>>
  /\ visited_states' = Record(<<>>, initial_state, 0)
  /\ min_total_time' = Infinity
  /\ best_path' = None
  /\ pq' = {}
  /\ visited_times' = <<>>
  /\ ret' = NoRet
  /\ output' = NoOutput
  /\ popped' = {}
  /\ last_pop' = 0
  /\ UNCHANGED <<crossing_times, time_limit, runs>>

Return(best_time, path, map) ==
  /\ ret' = [best_time |-> best_time, path |-> path, map |-> map]
  /\ runs' = Append(runs, [solver |-> solver, best_time |-> best_time])
  /\ pc' = "returned"

Popping(config, current_time) ==
  /\ popped' = popped \cup {[current_config |-> config, current_time |-> current_time]}
  /\ last_pop' = current_time

InBfs == solver = "bfs" /\ pc = "loop"
InDfs == solver = "dfs" /\ pc = "loop"

BfsGoal ==
  /\ InBfs
  /\ \E e \in heappop(pq) :
       /\ IsGoal(Last(e.path))
       /\ e.current_time <= time_limit
       /\ pq' = pq \ {e}
       /\ Popping(Last(e.path), e.current_time)
       /\ Return(Some(e.current_time), Some(e.path), visited_times)
  /\ UNCHANGED <<crossing_times, time_limit, solver, visited_times, stack,
                 visited_states, min_total_time, best_path, output>>

BfsGoalOverLimit ==
  /\ InBfs
  /\ \E e \in heappop(pq) :
       /\ IsGoal(Last(e.path))
       /\ ~(e.current_time <= time_limit)
       /\ pq' = pq \ {e}
       /\ Popping(Last(e.path), e.current_time)
  /\ UNCHANGED <<crossing_times, time_limit, solver, pc, visited_times, stack,
                 visited_states, min_total_time, best_path, ret, output, runs>>

BfsStale ==
  /\ InBfs
  /\ \E e \in heappop(pq) :
       /\ ~IsGoal(Last(e.path))
       /\ e.current_time > Get(visited_times, Last(e.path))
       /\ pq' = pq \ {e}
       /\ Popping(Last(e.path), e.current_time)
  /\ UNCHANGED <<crossing_times, time_limit, solver, pc, visited_times, stack,
                 visited_states, min_total_time, best_path, ret, output, runs>>

BfsExpand ==
  /\ InBfs
  /\ \E e \in heappop(pq) :
       /\ ~IsGoal(Last(e.path))
       /\ ~(e.current_time > Get(visited_times, Last(e.path)))
       /\ \E order \in IterOrders(move_from(Last(e.path))) :
            LET r == bfs_explore(Groups(order), e, visited_times, pq \ {e})
            IN /\ pq' = r.pq
               /\ visited_times' = r.visited
       /\ Popping(Last(e.path), e.current_time)
  /\ UNCHANGED <<crossing_times, time_limit, solver, pc, stack,
                 visited_states, min_total_time, best_path, ret, output, runs>>

BfsExhausted ==
  /\ InBfs
  /\ pq = {}
  /\ Return(None, None, visited_times)
  /\ UNCHANGED <<crossing_times, time_limit, solver, pq, visited_times, stack,
                 visited_states, min_total_time, best_path, output, popped, last_pop>>

DfsGoal ==
  /\ InDfs
  /\ stack # <<>>
  /\ LET e == Top(stack)
     IN /\ IsGoal(e.current_config)
        /\ stack' = Pop(stack)
        /\ Popping(e.current_config, e.current_time)
        /\ IF Improves(e.current_time, min_total_time)
           THEN /\ min_total_time' = e.current_time
                /\ best_path' = Some(e.path)
           ELSE UNCHANGED <<min_total_time, best_path>>
  /\ UNCHANGED <<crossing_times, time_limit, solver, pc, pq, visited_times,
                 visited_states, ret, output, runs>>

(* either pruning test; then continue *)
DfsPruned ==
  /\ InDfs
  /\ stack # <<>>
  /\ LET e == Top(stack)
     IN /\ ~IsGoal(e.current_config)
        /\ Abandoned(e, min_total_time, visited_states)
        /\ stack' = Pop(stack)
        /\ Popping(e.current_config, e.current_time)
  /\ UNCHANGED <<crossing_times, time_limit, solver, pc, pq, visited_times,
                 visited_states, min_total_time, best_path, ret, output, runs>>

DfsExpand ==
  /\ InDfs
  /\ stack # <<>>
  /\ LET e == Top(stack)
     IN /\ ~IsGoal(e.current_config)
        /\ ~Abandoned(e, min_total_time, visited_states)
        /\ \E order \in IterOrders(move_from(e.current_config)) :
             LET r == dfs_explore(Groups(order), e, visited_states, <<>>)
             IN /\ visited_states' = r.visited
                /\ stack' = Pop(stack) \o sorted_reverse(r.possible_moves)
        /\ Popping(e.current_config, e.current_time)
  /\ UNCHANGED <<crossing_times, time_limit, solver, pc, pq, visited_times,
                 min_total_time, best_path, ret, output, runs>>

DfsReturn ==
  /\ InDfs
  /\ stack = <<>>
  /\ Return(IF min_total_time # Infinity THEN Some(min_total_time) ELSE None,
            best_path, visited_states)
  /\ UNCHANGED <<crossing_times, time_limit, solver, pq, visited_times, stack,
                 visited_states, min_total_time, best_path, output, popped, last_pop>>

Report ==
  /\ pc = "returned"
  /\ output' = print_bridge_solution(ret.best_time, ret.path, ret.map)
  /\ pc' = "printed"
  /\ UNCHANGED <<crossing_times, time_limit, solver, pq, visited_times, stack,
                 visited_states, min_total_time, best_path, ret, popped, last_pop, runs>>

Next ==
  \/ CallBfs
  \/ CallDfs
  \/ BfsGoal
  \/ BfsGoalOverLimit
  \/ BfsStale
  \/ BfsExpand
  \/ BfsExhausted
  \/ DfsGoal
  \/ DfsPruned
  \/ DfsExpand
  \/ DfsReturn
  \/ Report

Spec == Init /\ [][Next]_vars

Step ==
  \/ BfsGoal \/ BfsGoalOverLimit \/ BfsStale \/ BfsExpand \/ BfsExhausted
  \/ DfsGoal \/ DfsPruned \/ DfsExpand \/ DfsReturn

(* the solvers are sequential code: a loop that can step does step *)
LiveSpec == Init /\ [][Next]_vars /\ WF_vars(Step)

(* ---- reference semantics of the puzzle, by exhaustive enumeration ---- *)
(* A crossing sequence starts with everyone on the start side and the     *)
(* umbrella there; a move takes 1 or 2 people from the umbrella's side to  *)
(* the other side and costs the slowest mover's duration.                  *)
RefInit == [start_side |-> DOMAIN crossing_times, end_side |-> {}, umbrella_pos |-> "start"]

RefSide(c) == IF c.umbrella_pos = "start" THEN c.start_side ELSE c.end_side

RefMoves(c) == { g \in SUBSET RefSide(c) : Cardinality(g) \in {1, 2} }

RefCost(g) == Max({ crossing_times[p] : p \in g })

RefApply(c, g) ==
  IF c.umbrella_pos = "start"
  THEN [start_side |-> c.start_side \ g, end_side |-> c.end_side \cup g, umbrella_pos |-> "end"]
  ELSE [start_side |-> c.start_side \cup g, end_side |-> c.end_side \ g, umbrella_pos |-> "start"]

RECURSIVE SumTimes(_)
SumTimes(f) == IF f = <<>> THEN 0 ELSE Head(f) + SumTimes(Tail(f))

(* one person escorting the others one at a time costs less than this *)
Horizon == 2 * SumTimes(crossing_times)

(* every (configuration, total time) some sequence of moves of total time  *)
(* at most Horizon ends in                                                 *)
RECURSIVE RefReach(_, _)
RefReach(seen, frontier) ==
  IF frontier = {} THEN seen
  ELSE LET next == UNION { { [config |-> RefApply(x.config, g), time |-> x.time + RefCost(g)] :
                               g \in RefMoves(x.config) } : x \in frontier }
           fresh == { y \in next : y.time <= Horizon } \ seen
       IN RefReach(seen \cup fresh, fresh)

CompleteTimes ==
  LET start == {[config |-> RefInit, time |-> 0]}
  IN { x.time : x \in { y \in RefReach(start, start) : y.config.start_side = {} } }

(* the minimum total time over all complete crossing sequences *)
MinTotal == Min(CompleteTimes)

Feasible == MinTotal <= time_limit

Returned == pc \in {"returned", "printed"}
Found == ret.best_time # None
People == DOMAIN crossing_times

(* path[i] -> path[i+1] is exactly one valid move *)
ValidStep(prev, next) ==
  LET group == IF prev.umbrella_pos = "start"
               THEN prev.start_side \ next.start_side
               ELSE next.start_side \ prev.start_side
  IN /\ Cardinality(group) \in {1, 2}
     /\ group \subseteq RefSide(prev)
     /\ next.umbrella_pos # prev.umbrella_pos
     /\ next.umbrella_pos \in {"start", "end"}
     /\ next = RefApply(prev, group)
     /\ next.start_side \cap next.end_side = {}
     /\ next.start_side \cup next.end_side = People

ValidPath(path) ==
  /\ Len(path) >= 1
  /\ path[1] = RefInit
  /\ path[Len(path)].start_side = {}
  /\ \A i \in 1..(Len(path) - 1) : ValidStep(path[i], path[i + 1])

StepCost(prev, next) ==
  RefCost((prev.start_side \ next.start_side) \cup (next.start_side \ prev.start_side))

RECURSIVE SumTrips(_)
SumTrips(steps) == IF steps = <<>> THEN 0 ELSE Head(steps).trip_time + SumTrips(Tail(steps))

(* C1: whenever some complete crossing sequence fits the time limit, the   *)
(* priority-queue solver returns the minimum total time over all complete  *)
(* sequences.                                                              *)
C1_BfsOptimal ==
  (Returned /\ solver = "bfs" /\ People # {} /\ Feasible)
    => ret.best_time = Some(MinTotal)

C1_Witness ==
  /\ Returned /\ solver = "bfs" /\ Feasible
  /\ Cardinality(People) >= 3
  /\ Found /\ Len(ret.path[1]) >= 6

(* C2: on every input with a solution within the limit, a depth-first run  *)
(* and a priority-queue run return the same best_time, the optimal value.  *)
C2_SolversAgree ==
  \A i, j \in 1..Len(runs) :
    (runs[i].solver = "bfs" /\ runs[j].solver = "dfs" /\ Feasible)
      => /\ runs[j].best_time = runs[i].best_time
         /\ runs[j].best_time = Some(MinTotal)

C2_Witness ==
  /\ Len(runs) = 2 /\ runs[1].solver = "bfs" /\ runs[2].solver = "dfs"
  /\ Feasible /\ Cardinality(People) >= 3
  /\ runs[2].best_time # None

(* C3: a returned path starts at the initial configuration, ends with an   *)
(* empty start side, and each consecutive pair is exactly one valid move.  *)
C3_PathValid ==
  (Returned /\ ret.path # None) => ValidPath(ret.path[1])

C3_Witness ==
  /\ Returned /\ ret.path # None /\ solver = "dfs"
  /\ Len(ret.path[1]) >= 6
  /\ \E i \in 1..(Len(ret.path[1]) - 1) : ret.path[1][i].umbrella_pos = "end"

(* C4: the returned arrival map agrees with the returned path: 0 at its    *)
(* first configuration, best_time at its last, and each consecutive        *)
(* difference is the slowest mover's duration; so the printed trip times   *)
(* are the true trip costs and sum to best_time.                           *)
C4_MapAgreesWithPath ==
  (Returned /\ Found) =>
    LET path == ret.path[1]
        map == ret.map
    IN /\ map[path[1]] = 0
       /\ map[path[Len(path)]] = ret.best_time[1]
       /\ \A i \in 1..(Len(path) - 1) :
            map[path[i + 1]] - map[path[i]] = StepCost(path[i], path[i + 1])
       /\ pc = "printed" =>
            /\ output.found
            /\ Len(output.steps) = Len(path) - 1
            /\ \A i \in 1..Len(output.steps) :
                 output.steps[i].trip_time = RefCost(output.steps[i].moved_people)
            /\ SumTrips(output.steps) = ret.best_time[1]

(* the search lowered some map entry after first recording it *)
C4_Witness ==
  /\ pc = "printed" /\ Found /\ Len(ret.path[1]) >= 6
  /\ \E e \in popped : e.current_time > ret.map[e.current_config]

(* C5: for a non-empty set of people a solver finds a solution exactly     *)
(* when the minimum total time is at most time_limit (inclusive); else it  *)
(* returns (None, None, map); a returned best_time never exceeds the       *)
(* limit.  Durations 5,10,20,25 give 60 at limit 60 and nothing at 15;     *)
(* durations 1,2 give 2 at limit 2.                                        *)
C5_FoundIffFeasible ==
  (Returned /\ People # {}) =>
    /\ Found <=> Feasible
    /\ Found <=> ret.path # None
    /\ Found => ret.best_time[1] <= time_limit
    /\ ~Feasible => (ret.best_time = None /\ ret.path = None /\ ret.map # <<>>)
    /\ (crossing_times = CROSSING_TIMES /\ time_limit = TIME_LIMIT) => ret.best_time = Some(60)
    /\ (crossing_times = CROSSING_TIMES /\ time_limit = 15) => ret.best_time = None
    /\ (crossing_times = <<1, 2>> /\ time_limit = 2) => ret.best_time = Some(2)

(* a solution whose total is exactly the limit *)
C5_Witness ==
  /\ Returned /\ People # {} /\ Found
  /\ ret.best_time[1] = time_limit
  /\ crossing_times = CROSSING_TIMES

(* C6: best_time is a function of the input only: two runs of the same     *)
(* solver on the same input, whatever the iteration orders and the         *)
(* tie-breaking, return the same best_time.                                *)
C6_Deterministic ==
  \A i, j \in 1..Len(runs) :
    runs[i].solver = runs[j].solver => runs[i].best_time = runs[j].best_time

(* two runs of one solver on an input with ties *)
C6_Witness ==
  /\ Len(runs) = 2 /\ runs[1].solver = runs[2].solver
  /\ runs[2].best_time # None /\ Cardinality(People) >= 3
  /\ \E p, q \in People : p # q /\ crossing_times[p] = crossing_times[q]

(* C7: the times of the entries popped from the priority queue never       *)
(* decrease, and no entry in the queue is cheaper than the latest pop (in  *)
(* particular than a popped goal entry).                                   *)
C7_PopOrder ==
  /\ [][(solver = "bfs" /\ pc = "loop" /\ solver' = "bfs") => last_pop' >= last_pop]_vars
  /\ [](solver = "bfs" => \A e \in pq : e.current_time >= last_pop)

C7_Witness ==
  /\ solver = "bfs" /\ pc = "returned" /\ Found
  /\ pq # {} /\ last_pop > 0 /\ Cardinality(popped) >= 5

AllConfigs ==
  { [start_side |-> side, end_side |-> People \ side, umbrella_pos |-> u] :
      side \in SUBSET People, u \in {"start", "end"} }

ActiveMap == IF solver = "bfs" THEN visited_times ELSE visited_states
Pending == IF solver = "bfs" THEN Cardinality(pq) ELSE Len(stack)

(* above every time a configuration can be recorded at *)
Cap == IF time_limit < 0 THEN 1 ELSE time_limit + 1

(* the sum over all configurations of the time recorded for it, Cap for a *)
(* configuration not recorded yet; the recorded times are summed as a      *)
(* count of pairs                                                          *)
SumRecorded ==
  Cap * (Cardinality(AllConfigs) - Cardinality(DOMAIN ActiveMap))
    + Cardinality({ x \in (DOMAIN ActiveMap) \X (1..Cap) : x[2] <= ActiveMap[x[1]] })

(* each push lowers a recorded time by at least 1; each iteration pops 1 *)
Measure == 2 * SumRecorded + Pending

(* C9: both solver loops terminate: a natural-number measure (recorded     *)
(* arrival times, bounded by the limit, plus the entries waiting) strictly *)
(* decreases with every loop iteration.  (The branches of an iteration    *)
(* are exhaustive, so a running loop always has a next step or returns.)   *)
C9_Terminates ==
  /\ [][(pc = "loop" /\ pc' = "loop") => Measure' < Measure]_vars
  /\ [](pc = "loop" =>
          /\ Measure >= 0
          /\ DOMAIN ActiveMap \subseteq AllConfigs
          /\ \A c \in DOMAIN ActiveMap : ActiveMap[c] < Cap)

(* the same under fairness: every call that entered its loop returns *)
C9_EventuallyReturns == (pc = "loop") ~> (pc = "returned")

C9_Witness ==
  /\ pc = "returned" /\ Cardinality(popped) >= 8 /\ ~Found

(* C10 as stated: with no people and time_limit >= 0 each solver returns   *)
(* best_time None and path None, and the printer reports no solution.      *)
C10_EmptyIsNoSolution ==
  (Returned /\ People = {} /\ time_limit >= 0) =>
    /\ ret.best_time = None
    /\ ret.path = None
    /\ pc = "printed" => ~output.found

(* C10 amended: with no people and time_limit >= 0 each solver returns     *)
(* best_time 0 and the path holding only the initial configuration, and    *)
(* the printer reports a solution of total time 0 with no steps.           *)
C10_EmptyIsSolved ==
  (Returned /\ People = {} /\ time_limit >= 0) =>
    /\ ret.best_time = Some(0)
    /\ ret.path = Some(<<RefInit>>)
    /\ pc = "printed" => (output.found /\ output.total_time = Some(0) /\ output.steps = <<>>)

C10_Witness ==
  /\ pc = "printed" /\ People = {} /\ time_limit >= 0 /\ solver = "dfs"

====
